---------------------------- MODULE Spec2Model ----------------------------
(***************************************************************************)
(* The vote-casting core of alx-pully: the three cast paths (the vote      *)
(* route, the optimized vote route and the library function castVote), the *)
(* votes table with its constraints and trigger, the Redis rate limiter    *)
(* and poll cache, and the results function.  A request is a process that  *)
(* takes one step per awaited storage or cache round trip.                 *)
(***************************************************************************)
EXTENDS Integers, Sequences, FiniteSets, TLC

(***************************************************************************)
(* Bounds of the model.                                                    *)
(***************************************************************************)
NReq == 2        \* request slots: requests in flight at once
MaxStarts == 2   \* requests started in one behaviour
MaxTicks == 2    \* clock advances in one behaviour
ConcStarts == 3  \* requests started in one behaviour of SpecConc
RateStarts == 11 \* requests started in one behaviour of SpecRate
FaultStarts == 2 \* requests started in one behaviour of SpecFault
AccessStarts == 3 \* requests started in one behaviour of SpecAccess
RemoveStarts == 3 \* requests started in one behaviour of SpecRemove
ReadStarts == 3   \* requests started in one behaviour of SpecRead
BatchStarts == 1  \* requests started in one behaviour of SpecBatch
BatchMax == 250   \* entries of the largest batch
ReplyStarts == 2  \* requests started in one behaviour of SpecReply
KeyStarts == 2    \* requests started in one behaviour of SpecKey

(***************************************************************************)
(* Program constants.                                                      *)
(***************************************************************************)
RATE_LIMIT_WINDOW == 60
RATE_LIMIT_MAX_VOTES == 10
CACHE_TTL == 300
maxRetries == 3
CHUNK_SIZE == 100

None == "none"
Reqs == 1..NReq
\* The clock advances in steps of half a rate-limit window.
TickStep == RATE_LIMIT_WINDOW \div 2

(***************************************************************************)
(* The polls and poll_options tables.  This core only reads them.          *)
(***************************************************************************)
Users == {"u1"}
Fingerprints == {"f1"}
PollIds == {"p1", "p2", "p3", "p4"}
OptionIds == {"a1", "b1", "a2", "b2", "a3", "a4"}

Poll(p) ==
  CASE p = "p1" -> [id |-> "p1", creator_id |-> "u1", is_public |-> TRUE,
                    allow_multiple_votes |-> FALSE, allow_anonymous_votes |-> TRUE,
                    expires_at |-> <<>>]
    [] p = "p2" -> [id |-> "p2", creator_id |-> "u1", is_public |-> TRUE,
                    allow_multiple_votes |-> TRUE, allow_anonymous_votes |-> TRUE,
                    expires_at |-> <<>>]
    [] p = "p3" -> [id |-> "p3", creator_id |-> "u2", is_public |-> TRUE,
                    allow_multiple_votes |-> FALSE, allow_anonymous_votes |-> FALSE,
                    expires_at |-> <<TickStep>>]
    [] p = "p4" -> [id |-> "p4", creator_id |-> "u2", is_public |-> FALSE,
                    allow_multiple_votes |-> FALSE, allow_anonymous_votes |-> TRUE,
                    expires_at |-> <<>>]

\* poll_options.poll_id
OptionPoll(o) ==
  CASE o \in {"a1", "b1"} -> "p1"
    [] o \in {"a2", "b2"} -> "p2"
    [] o = "a3" -> "p3"
    [] o = "a4" -> "p4"

PollOptions(p) == {o \in OptionIds : OptionPoll(o) = p}

\* The option of the poll with order_index 0.
FirstOption(p) ==
  IF p = "p1" THEN "a1" ELSE IF p = "p2" THEN "a2"
  ELSE IF p = "p3" THEN "a3" ELSE "a4"

\* The public polls.
PublicPolls == {p \in PollIds : Poll(p).is_public}

\* Row level security of the polls table: "Anyone can view public polls" and
\* "Users can view their own polls"; uid is auth.uid() of the client that
\* sends the query, None without a session.
PollVisible(p, uid) ==
  p \in PollIds /\ (Poll(p).is_public \/ (uid # None /\ Poll(p).creator_id = uid))

\* poll.expires_at && new Date(poll.expires_at) < new Date(); a null
\* expires_at is the empty sequence.
Expired(p, t) == Poll(p).expires_at # <<>> /\ Poll(p).expires_at[1] < t

VARIABLES
  votes,    \* the votes table: a set of rows
  nextId,   \* the next row id (ids are never reused)
  rl,       \* Redis rate_limit:vote:<identifier> keys: [n, exp], n = 0 when absent
  cache,    \* Redis poll:<id> keys: the expiry time, 0 when absent
  now,      \* the clock
  ticks,    \* clock advances so far
  starts,   \* requests started so far
  req,      \* the requests in flight, one per slot
  lastWrite, \* history: the last write a cast path sent to the votes table
  acc,      \* history: per identifier, the accepted votes of its current
            \* window: the time of the first (s) and their number (k)
  redisUp,  \* whether the Redis server answers
  dbUp      \* whether the database answers

vars ==
  <<votes, nextId, rl, cache, now, ticks, starts, req, lastWrite, acc, redisUp,
    dbUp>>

\* The users with a private poll of their own.
Creators == {"u2"}

Identifiers == Users \cup Creators \cup Fingerprints \cup {"anonymous"}

Idle ==
  [pc |-> "idle", path |-> None, user |-> None, fp |-> None, poll |-> None,
   opts |-> <<>>, existing |-> {}, attempt |-> 0, result |-> None,
   retryAfter |-> 0, t0 |-> 0, had |-> FALSE, full |-> FALSE, mut |-> FALSE,
   counted |-> FALSE, redisFailed |-> FALSE, dbFailed |-> FALSE, fails |-> <<>>,
   hasVoted |-> FALSE, ledger |-> {}, batch |-> <<>>, i |-> 0, processed |-> 0,
   failed |-> 0, errors |-> <<>>, inserted |-> 0, gates |-> <<>>]

(***************************************************************************)
(* The votes table (CREATE TABLE public.votes and validate_vote_trigger).  *)
(***************************************************************************)
VotesColumns ==
  {"id", "poll_id", "option_id", "user_id", "voter_fingerprint", "ip_address",
   "user_agent", "created_at"}

\* UNIQUE(poll_id, user_id) and UNIQUE(poll_id, voter_fingerprint); a NULL
\* never equals a NULL.
UniqueOk(row, table) ==
  /\ row.user_id = None \/
       ~\E v \in table : v.poll_id = row.poll_id /\ v.user_id = row.user_id
  /\ row.voter_fingerprint = None \/
       ~\E v \in table : v.poll_id = row.poll_id
                          /\ v.voter_fingerprint = row.voter_fingerprint

\* The BEFORE INSERT trigger validate_vote.
ValidateVoteOk(row, table, t) ==
  /\ row.poll_id \in PollIds
  /\ ~Expired(row.poll_id, t)
  /\ (row.user_id # None /\ ~Poll(row.poll_id).allow_multiple_votes)
       => ~\E v \in table : v.poll_id = row.poll_id /\ v.user_id = row.user_id
  /\ (row.user_id = None /\ row.voter_fingerprint # None
        /\ ~Poll(row.poll_id).allow_multiple_votes)
       => ~\E v \in table : v.poll_id = row.poll_id
                             /\ v.voter_fingerprint = row.voter_fingerprint

\* The foreign keys of a vote row.
ForeignKeysOk(row) == row.poll_id \in PollIds /\ row.option_id \in OptionIds

\* Row level security of the votes table; uid is auth.uid() of the client
\* that sends the statement, None without a session.  Inserts: "Anyone can
\* vote on public polls".  Deletes: "Poll creators can delete votes on their
\* polls".  No policy allows an update.
RlsInsertOk(row, t) ==
  /\ row.poll_id \in PollIds
  /\ Poll(row.poll_id).is_public
  /\ Poll(row.poll_id).expires_at = <<>> \/ Poll(row.poll_id).expires_at[1] > t

RlsDeleteOk(v, uid) == uid # None /\ Poll(v.poll_id).creator_id = uid

RlsUpdateOk(v, uid) == FALSE

RowOk(row, table, t) ==
  /\ ForeignKeysOk(row)
  /\ ValidateVoteOk(row, table, t)
  /\ UniqueOk(row, table)
  /\ RlsInsertOk(row, t)

\* The rows lo..hi of the statement, row k getting id `id' + k - 1; the
\* range is halved so that a statement of a hundred rows nests a few levels
\* deep only.
RECURSIVE InsertRange(_, _, _, _, _, _)
InsertRange(rows, lo, hi, table, id, t) ==
  IF lo > hi THEN [ok |-> TRUE, table |-> table]
  ELSE IF lo = hi
    THEN LET row == [id |-> id + lo - 1] @@ rows[lo]
         IN IF RowOk(row, table, t)
            THEN [ok |-> TRUE, table |-> table \cup {row}]
            ELSE [ok |-> FALSE, table |-> table]
  ELSE LET mid == (lo + hi) \div 2
           left == InsertRange(rows, lo, mid, table, id, t)
       IN IF left.ok THEN InsertRange(rows, mid + 1, hi, left.table, id, t)
          ELSE left

\* One INSERT statement of the rows `rows' (in order), the first getting id
\* `id': the table after it, or the table unchanged when a row is refused;
\* the statement is atomic.  Each row is checked against the table and the
\* rows of the statement before it.
InsertInto(rows, table, id, t) ==
  InsertRange(rows, 1, Len(rows), table, id, t)

\* An INSERT that keeps the rows accepted before the refused one.
InsertRowsPartial(rows, cols, table, id, t) == InsertInto(rows, table, id, t)

InsertRows(rows, cols, table, id, t) ==
  IF cols \subseteq VotesColumns
  THEN LET res == InsertInto(rows, table, id, t)
       IN IF res.ok THEN res ELSE [ok |-> FALSE, table |-> table]
  ELSE [ok |-> FALSE, table |-> table]

\* UPDATE votes SET <cols> WHERE id = <id>: refused when it names a column
\* the table does not have; otherwise the option of the row changes if the
\* client may update it (no such row, no error).
UpdateVote(id, option, cols, uid, table) ==
  IF cols \subseteq VotesColumns
  THEN [ok |-> TRUE,
        table |-> {IF v.id = id /\ RlsUpdateOk(v, uid)
                   THEN [v EXCEPT !.option_id = option] ELSE v : v \in table}]
  ELSE [ok |-> FALSE, table |-> table]

\* A query for the caller's votes that looks at the fingerprint first.
getUserVoteByFingerprint(p, u, f, table) ==
  IF f # None THEN {v \in table : v.poll_id = p /\ v.voter_fingerprint = f}
  ELSE IF u # None THEN {v \in table : v.poll_id = p /\ v.user_id = u}
  ELSE {}

\* select * from votes where poll_id = p and (user_id = u | fingerprint = f):
\* getUserVote and getExistingVotes.
getUserVote(p, u, f, table) ==
  IF u # None THEN {v \in table : v.poll_id = p /\ v.user_id = u}
  ELSE IF f # None THEN {v \in table : v.poll_id = p /\ v.voter_fingerprint = f}
  ELSE {}

SeqToSet(s) == {s[i] : i \in 1..Len(s)}

\* History: the request has passed the gate g of its handler.
Pass(q, g) ==
  [q EXCEPT !.gates = IF g \in SeqToSet(q.gates) THEN q.gates
                      ELSE Append(q.gates, g)]

(***************************************************************************)
(* The clock.  Redis drops a key when its expiry time is reached.          *)
(***************************************************************************)
Tick ==
  /\ ticks < MaxTicks
  /\ ticks' = ticks + 1
  /\ now' = now + TickStep
  /\ rl' = [k \in Identifiers |->
              IF rl[k].n > 0 /\ rl[k].exp <= now + TickStep
              THEN [n |-> 0, exp |-> 0] ELSE rl[k]]
  /\ cache' = [p \in PollIds |->
                 IF cache[p] > 0 /\ cache[p] <= now + TickStep THEN 0 ELSE cache[p]]
  /\ UNCHANGED <<votes, nextId, starts, req, lastWrite, acc, redisUp, dbUp>>


(***************************************************************************)
(* Requests.  A request record holds the handler's inputs and locals:      *)
(* pc is its position, existing the rows its existing-vote query returned, *)
(* attempt the retry loop's counter.  The rest is history: t0 the time it  *)
(* arrived, had whether its identity had a vote on the poll then, full     *)
(* whether its identifier had RATE_LIMIT_MAX_VOTES accepted votes in the   *)
(* window open then, mut whether one of its statements changed the votes   *)
(* table, counted whether it incremented its rate-limit counter,           *)
(* redisFailed and dbFailed whether a Redis call or a database call of it  *)
(* met a server that did not answer, fails why each failed attempt of its  *)
(* insert retry loop failed, hasVoted the flag a GET answered with and     *)
(* ledger the votes table as it was when the GET read it.  A batch request *)
(* holds the body's entries (batch), the offset of the next chunk (i), the *)
(* counters processed and failed and the error list; inserted is history:  *)
(* the number of rows its statements added to the table.                   *)
(***************************************************************************)
\* const identifier = userId || fingerprint || "anonymous"
Identifier(u, f) == IF u # None THEN u ELSE IF f # None THEN f ELSE "anonymous"

IdentityPairs == (Users \cup {None}) \X (Fingerprints \cup {None})

\* The ballots sent to poll p: one of its options, both of them, or an
\* option of another poll.
BothOptions(p) ==
  IF p = "p1" THEN {<<"a1", "b1">>} ELSE IF p = "p2" THEN {<<"a2", "b2">>} ELSE {}

ForeignOption(p) == IF p = "p1" THEN "a2" ELSE "a1"

Ballots(p) ==
  {<<o>> : o \in PollOptions(p)} \cup {<<ForeignOption(p)>>} \cup BothOptions(p)

\* History: the identifier k has at least n accepted votes in a window of
\* RATE_LIMIT_WINDOW seconds that holds the present time.
InWindow(k, n) == acc[k].k >= n /\ now < acc[k].s + RATE_LIMIT_WINDOW

Arrive(r, cap, path, pc0, u, f, p, o) ==
  /\ req[r].pc = "idle"
  /\ starts < cap
  /\ \A r2 \in Reqs : r2 < r => req[r2].pc # "idle"
  /\ starts' = starts + 1
  /\ req' = [req EXCEPT ![r] =
       [Idle EXCEPT !.pc = pc0, !.path = path, !.user = u, !.fp = f,
                    !.poll = p, !.opts = o, !.t0 = now,
                    !.gates = <<"identity">>,
                    !.had = (getUserVote(p, u, f, votes) # {}),
                    !.full = InWindow(Identifier(u, f), RATE_LIMIT_MAX_VOTES)]]
  /\ UNCHANGED <<votes, nextId, rl, cache, now, ticks, lastWrite, acc, redisUp, dbUp>>

Respond(r, result) ==
  req' = [req EXCEPT ![r].pc = "done", ![r].result = result]

Goto(r, pc1) == req' = [req EXCEPT ![r].pc = pc1]

\* History: the identifier k has one more accepted vote, in the window of
\* RATE_LIMIT_WINDOW seconds that its first accepted vote opened.
Accepted(k, ok) ==
  IF ~ok THEN acc
  ELSE IF acc[k].k = 0 \/ now >= acc[k].s + RATE_LIMIT_WINDOW
    THEN [acc EXCEPT ![k] = [s |-> now, k |-> 1]]
  ELSE [acc EXCEPT ![k].k = acc[k].k + 1]

\* The slot of an answered request takes the next request.
Release(r) ==
  /\ req[r].pc = "done"
  /\ req' = [req EXCEPT ![r] = Idle]
  /\ UNCHANGED <<votes, nextId, rl, cache, now, ticks, starts, lastWrite, acc, redisUp, dbUp>>

(***************************************************************************)
(* The vote route: POST /api/polls/[id]/vote.                              *)
(***************************************************************************)
\* The request arrives: the session's user and the body are read.  The
\* body's option_ids may be empty here.
POST_vote(r) ==
  \E id \in IdentityPairs, p \in PublicPolls :
    \E o \in Ballots(p) \cup {<<>>} :
      Arrive(r, MaxStarts, "route", "validate", id[1], id[2], p, o)

\* The body check, the poll's row and the checks on it, the options query
\* and the multiple-choice check.
RouteVerdict(q, t) ==
  LET poll == Poll(q.poll)
      found == {o \in PollOptions(q.poll) : o \in SeqToSet(q.opts)}
  IN IF Len(q.opts) = 0 THEN "validation"
     ELSE IF ~dbUp \/ ~PollVisible(q.poll, q.user) THEN "not_found"
     ELSE IF ~poll.is_public /\ (q.user = None \/ poll.creator_id # q.user)
       THEN "access_denied"
     ELSE IF Expired(q.poll, t) THEN "expired"
     ELSE IF q.user = None /\ ~poll.allow_anonymous_votes THEN "auth_required"
     ELSE IF Cardinality(found) # Len(q.opts) THEN "validation"
     ELSE IF ~poll.allow_multiple_votes /\ Len(q.opts) > 1 THEN "validation"
     ELSE "pass"

POST_validate(r) ==
  /\ req[r].pc = "validate"
  /\ LET verdict == RouteVerdict(req[r], now)
     IN IF verdict # "pass" THEN Respond(r, verdict)
        ELSE req' = [req EXCEPT ![r] =
               [Pass(req[r], "poll") EXCEPT
                  !.pc = IF ~Poll(req[r].poll).allow_multiple_votes
                         THEN "already" ELSE "cv_fetch"]]
  /\ UNCHANGED <<votes, nextId, rl, cache, now, ticks, starts, lastWrite, acc, redisUp, dbUp>>

\* A handler's catch block for a DatabaseError.
DatabaseError(q) ==
  [q EXCEPT !.pc = "done", !.result = "db_error",
            !.dbFailed = (q.dbFailed \/ ~dbUp)]

\* The existing-vote check of a poll that disallows multiple votes.
POST_alreadyVoted(r) ==
  /\ req[r].pc = "already"
  /\ IF ~dbUp /\ (req[r].user # None \/ req[r].fp # None)
       THEN req' = [req EXCEPT ![r] = DatabaseError(req[r])]
     ELSE IF getUserVote(req[r].poll, req[r].user, req[r].fp, votes) # {}
       THEN Respond(r, "already_voted")
     ELSE req' = [req EXCEPT ![r] =
            [Pass(req[r], "existing") EXCEPT !.pc = "cv_fetch"]]
  /\ UNCHANGED <<votes, nextId, rl, cache, now, ticks, starts, lastWrite, acc, redisUp, dbUp>>

\* supabase.rpc("get_poll_results") and the success response.
POST_results(r) ==
  /\ req[r].pc = "results"
  /\ Respond(r, "ok")
  /\ UNCHANGED <<votes, nextId, rl, cache, now, ticks, starts, lastWrite, acc, redisUp, dbUp>>

(***************************************************************************)
(* castVote (lib/database.ts), called by the vote route and by itself.     *)
(***************************************************************************)
castVote_call(r) ==
  \E id \in IdentityPairs, p \in PublicPolls :
    \E o \in Ballots(p) :
      Arrive(r, MaxStarts, "lib", "cv_fetch", id[1], id[2], p, o)

\* voteData.voter_fingerprint as castVote sees it: the route clears it for
\* an authenticated user.
VoteDataFingerprint(q) ==
  IF q.path = "route" /\ q.user # None THEN None ELSE q.fp

CastVerdict(q, t) == IF Expired(q.poll, t) THEN "expired" ELSE "pass"

\* castVote's client is createClientSupabase(): it carries the caller's
\* session when castVote runs in the browser, and none inside the route
\* handler.
CastUid(q) == IF q.path = "lib" THEN q.user ELSE None

\* The poll's allow_multiple_votes and expires_at are fetched and checked.
castVote_fetchPoll(r) ==
  /\ req[r].pc = "cv_fetch"
  /\ IF ~dbUp \/ ~PollVisible(req[r].poll, CastUid(req[r]))
       THEN req' = [req EXCEPT ![r] = DatabaseError(req[r])]
     ELSE IF CastVerdict(req[r], now) # "pass"
       THEN Respond(r, CastVerdict(req[r], now))
     ELSE IF /\ ~Poll(req[r].poll).allow_multiple_votes
             /\ (req[r].user # None \/ VoteDataFingerprint(req[r]) # None)
       THEN Goto(r, "cv_delete")
     ELSE Goto(r, "cv_insert")
  /\ UNCHANGED <<votes, nextId, rl, cache, now, ticks, starts, lastWrite, acc, redisUp, dbUp>>

\* The rows castVote deletes first on a poll that disallows multiple votes.
CastDeletes(q, table) ==
  IF q.user # None
  THEN {v \in table : v.poll_id = q.poll /\ v.user_id = q.user
                      /\ RlsDeleteOk(v, CastUid(q))}
  ELSE {v \in table : v.poll_id = q.poll
                      /\ v.voter_fingerprint = VoteDataFingerprint(q)
                      /\ RlsDeleteOk(v, CastUid(q))}

\* The answer of the delete is not looked at.
castVote_delete(r) ==
  /\ req[r].pc = "cv_delete"
  /\ LET gone == IF dbUp THEN CastDeletes(req[r], votes) ELSE {}
     IN /\ votes' = votes \ gone
        /\ req' = [req EXCEPT ![r].pc = "cv_insert",
                              ![r].mut = (req[r].mut \/ gone # {}),
                              ![r].dbFailed = (req[r].dbFailed \/ ~dbUp)]
  /\ UNCHANGED <<nextId, rl, cache, now, ticks, starts, lastWrite, acc, redisUp, dbUp>>

CastRows(q) ==
  [i \in 1..Len(q.opts) |->
     [poll_id |-> q.poll, option_id |-> q.opts[i], user_id |-> q.user,
      voter_fingerprint |-> VoteDataFingerprint(q)]]

CastColumns == {"poll_id", "option_id", "user_id", "voter_fingerprint"}

WriteOf(q, kind) ==
  [kind |-> kind, poll |-> q.poll, user |-> q.user, fp |-> q.fp,
   option |-> q.opts[1]]

castVote_insert(r) ==
  /\ req[r].pc = "cv_insert"
  /\ LET res == IF dbUp
                THEN InsertRows(CastRows(req[r]), CastColumns, votes, nextId, now)
                ELSE [ok |-> FALSE, table |-> votes]
     IN /\ votes' = res.table
        /\ nextId' = IF res.ok THEN nextId + Len(req[r].opts) ELSE nextId
        /\ req' = [req EXCEPT
             ![r].pc = IF res.ok /\ req[r].path = "route" THEN "results" ELSE "done",
             ![r].result = IF ~res.ok THEN "db_error"
                           ELSE IF req[r].path = "route" THEN None ELSE "ok",
             ![r].mut = (req[r].mut \/ res.ok),
             ![r].dbFailed = (req[r].dbFailed \/ ~dbUp),
             ![r].gates = IF res.ok THEN Pass(req[r], "written").gates
                          ELSE req[r].gates]
        /\ acc' = Accepted(Identifier(req[r].user, req[r].fp), res.ok)
  /\ lastWrite' = <<WriteOf(req[r], "insert")>>
  /\ UNCHANGED <<rl, cache, now, ticks, starts, redisUp, dbUp>>

(***************************************************************************)
(* get_poll_results: per option of the poll its vote count and percentage, *)
(* the percentage in hundredths of a percent (NUMERIC(5,2)).               *)
(***************************************************************************)
\* SELECT COUNT(*) FROM votes WHERE poll_id = poll_uuid
total_votes(p, table) == Cardinality({v \in table : v.poll_id = p})

\* The LEFT JOIN's count of one option of the poll.
vote_count(p, o, table) ==
  Cardinality({v \in table : v.poll_id = p /\ v.option_id = o})

\* ROUND(count / total * 100, 2), halves rounded away from zero.
percentage(count, total) ==
  IF total > 0 THEN (2 * count * 10000 + total) \div (2 * total) ELSE 0

get_poll_results(p, table) ==
  [o \in PollOptions(p) |->
     [vote_count |-> vote_count(p, o, table),
      percentage |-> percentage(vote_count(p, o, table), total_votes(p, table))]]

(***************************************************************************)
(* DELETE /api/polls/[id]/vote: one DELETE statement after checks that     *)
(* read the session and the polls table only.                              *)
(***************************************************************************)
\* A DELETE handler that lets every signed-in requester delete all votes.
DeleteVerdictOpen(u, p, deleteAll) ==
  IF u = None THEN "auth_required"
  ELSE IF ~PollVisible(p, u) THEN "not_found"
  ELSE "pass"

DeleteVerdict(u, p, deleteAll) ==
  IF u = None THEN "auth_required"
  ELSE IF ~PollVisible(p, u) THEN "not_found"
  ELSE IF deleteAll /\ Poll(p).creator_id # u THEN "forbidden"
  ELSE "pass"

DeletedVotes(u, p, deleteAll, table) ==
  {v \in table : v.poll_id = p /\ (deleteAll \/ v.user_id = u)
                  /\ RlsDeleteOk(v, u)}

DELETE_votes(u, p, deleteAll) ==
  /\ votes' = IF DeleteVerdict(u, p, deleteAll) = "pass"
              THEN votes \ DeletedVotes(u, p, deleteAll, votes)
              ELSE votes
  /\ UNCHANGED <<nextId, rl, cache, now, ticks, starts, req, lastWrite, acc, redisUp, dbUp>>

\* The DELETE handler as a request: path "deleteAll" is the query parameter
\* deleteAll=true, path "delete" is the request without it.  A DELETE
\* statement that matches no row, or only rows the client may not delete, is
\* no error.
DELETE(r) ==
  /\ req[r].pc = "delete"
  /\ LET all == req[r].path = "deleteAll"
         verdict == DeleteVerdict(req[r].user, req[r].poll, all)
         gone == IF verdict = "pass" /\ dbUp
                 THEN DeletedVotes(req[r].user, req[r].poll, all, votes)
                 ELSE {}
     IN /\ votes' = votes \ gone
        /\ req' = [req EXCEPT ![r] =
             IF verdict # "pass"
             THEN [req[r] EXCEPT !.pc = "done", !.result = verdict]
             ELSE IF ~dbUp THEN DatabaseError(req[r])
             ELSE [req[r] EXCEPT !.pc = "done", !.result = "ok",
                                 !.mut = (gone # {})]]
  /\ UNCHANGED <<nextId, rl, cache, now, ticks, starts, lastWrite, acc, redisUp, dbUp>>

(***************************************************************************)
(* GET /api/polls/[id]/vote: getUserVote for the session's user and the    *)
(* fingerprint of the query string; answers { votes, hasVoted }.           *)
(***************************************************************************)
GET(r) ==
  /\ req[r].pc = "get"
  /\ votes' = votes
  /\ LET found == getUserVote(req[r].poll, req[r].user, req[r].fp, votes)
     IN req' = [req EXCEPT ![r] =
          IF ~dbUp /\ (req[r].user # None \/ req[r].fp # None)
          THEN DatabaseError(req[r])
          ELSE [req[r] EXCEPT !.pc = "done", !.result = "ok",
                              !.existing = {v.id : v \in found},
                              !.hasVoted = (Cardinality(found) > 0),
                              !.ledger = votes,
                              !.mut = (votes' # votes)]]
  /\ UNCHANGED <<nextId, rl, cache, now, ticks, starts, lastWrite, acc, redisUp, dbUp>>

(***************************************************************************)
(* POST /api/polls/batch-vote: the body's entries are inserted in chunks   *)
(* of CHUNK_SIZE, one INSERT statement per chunk.                          *)
(***************************************************************************)
\* An option id that is in no row of poll_options.
NoOption == "zz"

\* Entry i of a body whose entries are anonymous ballots for the first
\* option of the poll, but for entry `at', which is: JSON null ("null"), a
\* ballot for an option that does not exist ("option"), or a ballot that
\* carries the fingerprint that entry 1 carries too ("dup").
\* An entry is a record whose field json tells a JSON object from null.
BatchEntry(p, i, at, kind) ==
  [json |-> IF i = at /\ kind = "null" THEN "null" ELSE "object",
   optionId |-> IF i = at /\ kind = "option" THEN NoOption ELSE FirstOption(p),
   userId |-> None,
   fingerprint |-> IF kind = "dup" /\ (i = at \/ i = 1) THEN "f1" ELSE None]

BatchBody(p, n, at, kind) == [i \in 1..n |-> BatchEntry(p, i, at, kind)]

BatchPolls == {"p1", "p2"}

BatchSizes == {1, CHUNK_SIZE, CHUNK_SIZE + 1, BatchMax}

\* Where the special entry is: nowhere, or at the start or the end of a
\* chunk.
BatchSpots == {0, 2, CHUNK_SIZE, CHUNK_SIZE + 1, BatchMax}

POST_batch(r) ==
  /\ req[r].pc = "idle"
  /\ starts < BatchStarts
  /\ starts' = starts + 1
  /\ \E p \in BatchPolls, n \in BatchSizes, at \in BatchSpots,
        kind \in {"null", "option", "dup"} :
       /\ at <= n
       /\ req' = [req EXCEPT ![r] =
            [Idle EXCEPT !.pc = "chunk", !.path = "batch", !.poll = p,
                         !.t0 = now, !.batch = BatchBody(p, n, at, kind)]]
  /\ UNCHANGED <<votes, nextId, rl, cache, now, ticks, lastWrite, acc, redisUp, dbUp>>

\* batchData.votes.slice(i, i + CHUNK_SIZE)
Chunk(batch, i) ==
  SubSeq(batch, i + 1, IF i + CHUNK_SIZE < Len(batch) THEN i + CHUNK_SIZE
                       ELSE Len(batch))

BatchRows(p, chunk) ==
  [k \in 1..Len(chunk) |->
     [poll_id |-> p, option_id |-> chunk[k].optionId,
      user_id |-> chunk[k].userId, voter_fingerprint |-> chunk[k].fingerprint]]

BatchColumns ==
  {"poll_id", "option_id", "user_id", "voter_fingerprint", "created_at"}

\* A failed chunk that is counted as processed.
BatchCountProcessed(q, chunk, ok) ==
  [q EXCEPT !.processed = q.processed + Len(chunk),
            !.inserted = q.inserted + (IF ok THEN Len(chunk) ELSE 0)]

\* The counters after the insert of a chunk: lines 44-49.
BatchCount(q, chunk, ok) ==
  IF ok
  THEN [q EXCEPT !.processed = q.processed + Len(chunk),
                 !.inserted = q.inserted + Len(chunk)]
  ELSE [q EXCEPT !.failed = q.failed + Len(chunk),
                 !.errors = Append(q.errors, "Batch error")]

\* One round of the loop over the chunks: chunk.map (which throws on an
\* entry that is null, into the outer catch) and the awaited insert; after
\* the last chunk the response is sent.
POST_batchChunk(r) ==
  /\ req[r].pc = "chunk"
  /\ LET q == req[r]
         chunk == Chunk(q.batch, q.i)
     IN IF \E k \in 1..Len(chunk) : chunk[k].json = "null"
        THEN /\ req' = [req EXCEPT ![r] =
                  [q EXCEPT !.pc = "done", !.result = "server_error",
                            !.processed = 0, !.failed = Len(q.batch),
                            !.errors = <<"Batch processing failed">>]]
             /\ UNCHANGED <<votes, nextId>>
        ELSE LET res == IF dbUp
                        THEN InsertRows(BatchRows(q.poll, chunk), BatchColumns,
                                        votes, nextId, now)
                        ELSE [ok |-> FALSE, table |-> votes]
                 last == q.i + CHUNK_SIZE >= Len(q.batch)
             IN /\ votes' = res.table
                /\ nextId' = IF res.ok THEN nextId + Len(chunk) ELSE nextId
                /\ req' = [req EXCEPT ![r] =
                     [BatchCount(q, chunk, res.ok) EXCEPT
                        !.i = q.i + CHUNK_SIZE,
                        !.pc = IF last THEN "done" ELSE "chunk",
                        !.result = IF last THEN "ok" ELSE None,
                        !.mut = (q.mut \/ res.ok),
                        !.dbFailed = (q.dbFailed \/ ~dbUp)]]
  /\ UNCHANGED <<rl, cache, now, ticks, starts, lastWrite, acc, redisUp, dbUp>>

Init ==
  /\ votes = {}
  /\ nextId = 1
  /\ rl = [k \in Identifiers |-> [n |-> 0, exp |-> 0]]
  /\ cache = [p \in PollIds |-> 0]
  /\ now = 0
  /\ ticks = 0
  /\ starts = 0
  /\ req = [r \in Reqs |-> Idle]
  /\ lastWrite = <<>>
  /\ acc = [k \in Identifiers |-> [s |-> 0, k |-> 0]]
  /\ redisUp = TRUE
  /\ dbUp = TRUE

(***************************************************************************)
(* The optimized vote route (castVoteOptimized).                           *)
(***************************************************************************)
\* The request arrives: the session's user, the x-fingerprint header and the
\* body are read.  A body whose poll_id is not the route's is answered 400.
\* The handler hands an empty option list on to the storage client, whose
\* answer to an empty payload this repository does not define, so ballots
\* are not empty here (castVote likewise).
POST_optimized(r) ==
  \E id \in IdentityPairs, p \in PublicPolls :
    \E o \in Ballots(p) :
      Arrive(r, MaxStarts, "opt", "rl_get", id[1], id[2], p, o)

POST_mismatch(r) ==
  \E id \in IdentityPairs, p \in PublicPolls :
    \E o \in Ballots(p) :
      Arrive(r, MaxStarts, "opt", "mismatch", id[1], id[2], p, o)

POST_pollIdMismatch(r) ==
  /\ req[r].pc = "mismatch"
  /\ Respond(r, "validation")
  /\ UNCHANGED <<votes, nextId, rl, cache, now, ticks, starts, lastWrite, acc, redisUp, dbUp>>

\* checkRateLimit: redis.get(key), and redis.ttl(key) when the count has
\* reached the limit.  TTL answers -2 for a key that does not exist.
RedisTtl(k) == IF rl[k].n > 0 THEN rl[k].exp - now ELSE 0 - 2

\* A rate-limit check that rejects the request when Redis does not answer.
checkRateLimit_failClosed(q) ==
  [q EXCEPT !.pc = "done", !.result = "rate_limited", !.redisFailed = TRUE]

\* checkRateLimit's catch block: return { allowed: true }, "Fail open".
checkRateLimit_catch(q) ==
  [Pass(q, "rate") EXCEPT !.pc = "cache_get", !.redisFailed = TRUE]

checkRateLimit(r) ==
  /\ req[r].pc \in {"rl_get", "rl_ttl"}
  /\ LET key == Identifier(req[r].user, req[r].fp)
     IN IF ~redisUp THEN req' = [req EXCEPT ![r] = checkRateLimit_catch(req[r])]
        ELSE IF req[r].pc = "rl_get"
        THEN IF rl[key].n >= RATE_LIMIT_MAX_VOTES
             THEN Goto(r, "rl_ttl")
             ELSE req' = [req EXCEPT ![r] =
                    [Pass(req[r], "rate") EXCEPT !.pc = "cache_get"]]
        ELSE req' = [req EXCEPT ![r].pc = "done", ![r].result = "rate_limited",
                                ![r].retryAfter = RedisTtl(key)]
  /\ UNCHANGED <<votes, nextId, rl, cache, now, ticks, starts, lastWrite, acc, redisUp, dbUp>>

\* validatePollForVoting
validatePollForVoting(p, t) == ~Expired(p, t)

\* getCachedPoll returned the poll: validatePollForVoting, then on to the
\* existing-vote query.
Validated(q) ==
  IF validatePollForVoting(q.poll, now)
  THEN [Pass(q, "poll") EXCEPT !.pc = "existing"]
  ELSE [q EXCEPT !.pc = "done", !.result = "expired"]

\* getCachedPoll: redis.get(cacheKey); a failed read falls through to the
\* fetch from the polls table.
getCachedPoll_get(r) ==
  /\ req[r].pc = "cache_get"
  /\ req' = [req EXCEPT ![r] =
       IF ~redisUp THEN [req[r] EXCEPT !.pc = "db_fetch", !.redisFailed = TRUE]
       ELSE IF cache[req[r].poll] > 0 THEN Validated(req[r])
       ELSE [req[r] EXCEPT !.pc = "db_fetch"]]
  /\ UNCHANGED <<votes, nextId, rl, cache, now, ticks, starts, lastWrite, acc, redisUp, dbUp>>

\* getCachedPoll: the poll's row from the polls table
getCachedPoll_fetch(r) ==
  /\ req[r].pc = "db_fetch"
  /\ req' = [req EXCEPT ![r] =
       IF dbUp /\ PollVisible(req[r].poll, req[r].user)
       THEN [req[r] EXCEPT !.pc = "cache_set"]
       ELSE DatabaseError(req[r])]
  /\ UNCHANGED <<votes, nextId, rl, cache, now, ticks, starts, lastWrite, acc, redisUp, dbUp>>

\* getCachedPoll: redis.setex(cacheKey, 300, poll); a failed write is logged
\* and the poll returned.
getCachedPoll_setex(r) ==
  /\ req[r].pc = "cache_set"
  /\ cache' = IF redisUp THEN [cache EXCEPT ![req[r].poll] = now + CACHE_TTL]
              ELSE cache
  /\ req' = [req EXCEPT ![r] =
       [Validated(req[r]) EXCEPT !.redisFailed = (req[r].redisFailed \/ ~redisUp)]]
  /\ UNCHANGED <<votes, nextId, rl, now, ticks, starts, lastWrite, acc, redisUp, dbUp>>

\* getExistingVotes, and the branch on its answer.
getExistingVotes(r) ==
  /\ req[r].pc = "existing"
  /\ LET found == getUserVote(req[r].poll, req[r].user, req[r].fp, votes)
     IN req' = [req EXCEPT ![r] =
          IF ~dbUp /\ (req[r].user # None \/ req[r].fp # None)
          THEN DatabaseError(req[r])
          ELSE [Pass(req[r], "existing") EXCEPT
                  !.existing = {v.id : v \in found},
                  !.pc = IF ~Poll(req[r].poll).allow_multiple_votes /\ found # {}
                         THEN "replace" ELSE "insert",
                  !.attempt = 1]]
  /\ UNCHANGED <<votes, nextId, rl, cache, now, ticks, starts, lastWrite, acc, redisUp, dbUp>>

ReplaceColumns == {"option_id", "updated_at"}

\* replaceExistingVote: update votes set option_id, updated_at where id =
\* existingVotes[0].id; the answer is sent right after it.
replaceExistingVote(r) ==
  /\ req[r].pc = "replace"
  /\ \E id \in req[r].existing :
       LET res == IF dbUp
                  THEN UpdateVote(id, req[r].opts[1], ReplaceColumns,
                                  req[r].user, votes)
                  ELSE [ok |-> FALSE, table |-> votes]
       IN /\ votes' = res.table
          /\ req' = [req EXCEPT ![r] =
               IF res.ok
               THEN [Pass(req[r], "written") EXCEPT
                       !.pc = "done", !.result = "ok",
                       !.mut = (req[r].mut \/ res.table # votes)]
               ELSE DatabaseError(req[r])]
          /\ acc' = Accepted(Identifier(req[r].user, req[r].fp), res.ok)
  /\ lastWrite' = <<WriteOf(req[r], "update")>>
  /\ UNCHANGED <<nextId, rl, cache, now, ticks, starts, redisUp, dbUp>>

OptimizedRows(q) ==
  [i \in 1..Len(q.opts) |->
     [poll_id |-> q.poll, option_id |-> q.opts[i], user_id |-> q.user,
      voter_fingerprint |-> q.fp]]

OptimizedColumns ==
  {"poll_id", "option_id", "user_id", "voter_fingerprint", "created_at"}

\* A retry loop that returns to updateRateLimit whatever the attempt gave.
RetryLoopCounting(ok, attempt) == "rl_update"

\* insertVotesWithRetry: where the loop goes after an attempt.  It returns
\* to the handler's updateRateLimit call on success, tries again below
\* maxRetries attempts, and throws after the last.
RetryLoop(ok, attempt) ==
  IF ok THEN "rl_update" ELSE IF attempt < maxRetries THEN "insert" ELSE "done"

\* insertVotesWithRetry: one attempt of the loop.  An attempt fails when the
\* database does not answer ("transient") or refuses the statement
\* ("permanent").
insertVotesWithRetry(r) ==
  /\ req[r].pc = "insert"
  /\ LET res == IF dbUp
                THEN InsertRows(OptimizedRows(req[r]), OptimizedColumns, votes,
                                nextId, now)
                ELSE [ok |-> FALSE, table |-> votes]
         pc1 == RetryLoop(res.ok, req[r].attempt)
     IN /\ votes' = res.table
        /\ nextId' = IF res.ok THEN nextId + Len(req[r].opts) ELSE nextId
        /\ req' = [req EXCEPT
             ![r].pc = pc1,
             ![r].attempt = IF pc1 = "insert"
                            THEN req[r].attempt + 1 ELSE req[r].attempt,
             ![r].result = IF pc1 = "done" THEN "db_error" ELSE None,
             ![r].mut = (req[r].mut \/ res.ok),
             ![r].dbFailed = (req[r].dbFailed \/ ~dbUp),
             ![r].gates = IF res.ok THEN Pass(req[r], "written").gates
                          ELSE req[r].gates,
             ![r].fails = IF res.ok THEN req[r].fails
                          ELSE Append(req[r].fails,
                                      IF dbUp THEN "permanent" ELSE "transient")]
        /\ acc' = Accepted(Identifier(req[r].user, req[r].fp), res.ok)
  /\ lastWrite' = <<WriteOf(req[r], "insert")>>
  /\ UNCHANGED <<rl, cache, now, ticks, starts, redisUp, dbUp>>

\* redis.multi().incr(key).expire(key, RATE_LIMIT_WINDOW).exec()
RedisIncrExpire(k) ==
  [rl EXCEPT ![k] = [n |-> rl[k].n + 1, exp |-> now + RATE_LIMIT_WINDOW]]

\* updateRateLimit; a failed transaction is logged.
updateRateLimit(r) ==
  /\ req[r].pc = "rl_update"
  /\ rl' = IF redisUp THEN RedisIncrExpire(Identifier(req[r].user, req[r].fp))
           ELSE rl
  /\ req' = [req EXCEPT ![r].pc = "invalidate", ![r].counted = redisUp,
                        ![r].redisFailed = (req[r].redisFailed \/ ~redisUp)]
  /\ UNCHANGED <<votes, nextId, cache, now, ticks, starts, lastWrite, acc, redisUp, dbUp>>

\* invalidatePollCaches: redis.del of the poll's keys (a failed call is
\* logged), and the success response.
invalidatePollCaches(r) ==
  /\ req[r].pc = "invalidate"
  /\ cache' = IF redisUp THEN [cache EXCEPT ![req[r].poll] = 0] ELSE cache
  /\ req' = [req EXCEPT ![r] =
       [Pass(req[r], "invalidated") EXCEPT
          !.pc = "done", !.result = "ok",
          !.redisFailed = (req[r].redisFailed \/ ~redisUp)]]
  /\ UNCHANGED <<votes, nextId, rl, now, ticks, starts, lastWrite, acc, redisUp, dbUp>>

(***************************************************************************)
(* The HTTP responses of the route handlers: the status code, and whether  *)
(* the body's error text embeds the message of the storage error.          *)
(***************************************************************************)
\* The paths that answer over HTTP; castVote called by itself throws.
HttpPaths == {"route", "opt", "delete", "deleteAll", "get", "batch"}

\* The status of the answer to a finished request.  A DatabaseError is
\* answered with 400 by the catch blocks of the vote route's POST and DELETE
\* and with 500 by the optimized route's.
Status(q) ==
  CASE q.result = "ok" -> 200
    [] q.result = "db_error" -> IF q.path = "opt" THEN 500 ELSE 400
    [] q.result = "server_error" -> 500
    [] q.result = "rate_limited" -> 429
    [] q.result = "not_found" -> 404
    [] q.result \in {"access_denied", "forbidden"} -> 403
    [] q.result = "auth_required" -> 401
    [] OTHER -> 400

\* The error text of the body: a fixed text of the handler, or the message
\* of the DatabaseError, `Failed to ...: ${error.message}', which carries
\* the message of the storage error it was made from.
Body(q) ==
  IF q.result = "db_error"
  THEN [error |-> "error.message", storage |-> TRUE]
  ELSE IF q.result = "server_error"
  THEN [error |-> "Batch processing failed", storage |-> FALSE]
  ELSE [error |-> q.result, storage |-> FALSE]

\* The steps of the handlers.
RouteSteps(r) == POST_validate(r) \/ POST_alreadyVoted(r) \/ POST_results(r)

CastSteps(r) == castVote_fetchPoll(r) \/ castVote_delete(r) \/ castVote_insert(r)

OptimizedSteps(r) ==
  \/ checkRateLimit(r)
  \/ getCachedPoll_get(r) \/ getCachedPoll_fetch(r) \/ getCachedPoll_setex(r)
  \/ getExistingVotes(r) \/ replaceExistingVote(r) \/ insertVotesWithRetry(r)
  \/ updateRateLimit(r) \/ invalidatePollCaches(r)

Handle(r) ==
  RouteSteps(r) \/ CastSteps(r) \/ POST_pollIdMismatch(r) \/ OptimizedSteps(r)

\* One request at a time, on any poll, with any ballot and identity.
Next ==
  \/ Tick
  \/ POST_vote(1) \/ castVote_call(1) \/ POST_optimized(1) \/ POST_mismatch(1)
  \/ Handle(1)
  \/ Release(1)

Spec == Init /\ [][Next]_vars

(***************************************************************************)
(* Concurrent requests on the single-vote poll, each with one identity     *)
(* variant and one option of the poll.                                     *)
(***************************************************************************)
ConcIdentities == {<<"u1", None>>, <<None, "f1">>}

ConcArrive(r) ==
  \E id \in ConcIdentities, o \in PollOptions("p1"), path \in {"route", "lib", "opt"} :
    Arrive(r, ConcStarts, path,
           IF path = "route" THEN "validate"
           ELSE IF path = "lib" THEN "cv_fetch" ELSE "rl_get",
           id[1], id[2], "p1", <<o>>)

NextConc ==
  \E r \in Reqs :
    ConcArrive(r) \/ RouteSteps(r) \/ CastSteps(r) \/ OptimizedSteps(r) \/ Release(r)

SpecConc == Init /\ [][NextConc]_vars

(***************************************************************************)
(* One user's requests to the optimized vote route and to DELETE, enough   *)
(* of them to fill a rate-limit window.                                    *)
(***************************************************************************)
RatePolls == {"p2", "p3"}

RateArrive(r) ==
  \E p \in RatePolls, pc0 \in {"rl_get", "mismatch"} :
    Arrive(r, RateStarts, "opt", pc0, "u1", None, p, <<FirstOption(p)>>)

RateDelete ==
  /\ req[1].pc = "idle"
  /\ \E p \in RatePolls : DELETE_votes("u1", p, FALSE)

NextRate ==
  \/ Tick
  \/ RateDelete
  \/ RateArrive(1) \/ POST_pollIdMismatch(1) \/ OptimizedSteps(1) \/ Release(1)

SpecRate == Init /\ [][NextRate]_vars

(***************************************************************************)
(* The same user's requests to the optimized vote route from several       *)
(* clients at a time, each client voting on its poll and removing its vote *)
(* again, with the clock standing still.                                   *)
(***************************************************************************)
RacePoll(r) == IF r = 1 THEN "p1" ELSE "p2"

RaceArrive(r) ==
  Arrive(r, RateStarts, "opt", "rl_get", "u1", None, RacePoll(r),
         <<FirstOption(RacePoll(r))>>)

RaceDelete(r) ==
  /\ req[r].pc = "idle"
  /\ DELETE_votes("u1", RacePoll(r), FALSE)

NextRace ==
  \E r \in Reqs : RaceArrive(r) \/ OptimizedSteps(r) \/ Release(r) \/ RaceDelete(r)

SpecRace == Init /\ [][NextRace]_vars

(***************************************************************************)
(* castVote and the optimized vote route with a Redis server and a         *)
(* database that stop answering and come back at any time.                 *)
(***************************************************************************)
RedisFault ==
  /\ redisUp' = ~redisUp
  /\ UNCHANGED <<votes, nextId, rl, cache, now, ticks, starts, req, lastWrite, acc, dbUp>>

DbFault ==
  /\ dbUp' = ~dbUp
  /\ UNCHANGED <<votes, nextId, rl, cache, now, ticks, starts, req, lastWrite, acc, redisUp>>

\* The public polls without an expiry time.
FaultPolls == {p \in PublicPolls : Poll(p).expires_at = <<>>}

\* A user, a fingerprint, or neither.
FaultIdentities == ConcIdentities \cup {<<None, None>>}

\* The ballots sent to poll p here: its first option, or both options.
FaultBallots(p) == {<<FirstOption(p)>>} \cup BothOptions(p)

FaultArrive(r) ==
  \E id \in FaultIdentities, p \in FaultPolls, path \in {"lib", "opt"} :
    \E o \in FaultBallots(p) :
      Arrive(r, FaultStarts, path, IF path = "lib" THEN "cv_fetch" ELSE "rl_get",
             id[1], id[2], p, o)

NextFault ==
  \/ RedisFault \/ DbFault
  \/ FaultArrive(1) \/ CastSteps(1) \/ OptimizedSteps(1) \/ Release(1)

SpecFault == Init /\ [][NextFault]_vars

(***************************************************************************)
(* Requests on the private poll and on a public one, by the private        *)
(* poll's creator, by another user and without a session, on the three     *)
(* cast paths.                                                             *)
(***************************************************************************)
AccessIdentities ==
  (Users \cup Creators \cup {None}) \X (Fingerprints \cup {None})

\* The private poll and a public one.
AccessPolls == {"p1", "p4"}

AccessArrive(r) ==
  \E id \in AccessIdentities, p \in AccessPolls, path \in {"route", "lib", "opt"} :
    Arrive(r, AccessStarts, path,
           IF path = "route" THEN "validate"
           ELSE IF path = "lib" THEN "cv_fetch" ELSE "rl_get",
           id[1], id[2], p, <<FirstOption(p)>>)

NextAccess ==
  \/ AccessArrive(1)
  \/ RouteSteps(1) \/ CastSteps(1) \/ OptimizedSteps(1) \/ Release(1)

SpecAccess == Init /\ [][NextAccess]_vars

(***************************************************************************)
(* Votes cast through castVote and removed through DELETE, by the creator  *)
(* of a poll, by another user and without a session.                       *)
(***************************************************************************)
RemovePolls == {"p1", "p3"}

RemoveIdentities == {<<"u1", None>>, <<"u2", None>>, <<None, "f1">>, <<None, None>>}

RemoveArrive(r) ==
  \E id \in RemoveIdentities, p \in RemovePolls,
     path \in {"lib", "delete", "deleteAll"} :
    Arrive(r, RemoveStarts, path, IF path = "lib" THEN "cv_fetch" ELSE "delete",
           id[1], id[2], p, <<FirstOption(p)>>)

NextRemove ==
  RemoveArrive(1) \/ CastSteps(1) \/ DELETE(1) \/ Release(1)

SpecRemove == Init /\ [][NextRemove]_vars

(***************************************************************************)
(* Queries for the caller's votes next to votes cast through castVote, two *)
(* requests at a time.                                                     *)
(***************************************************************************)
ReadArrive(r) ==
  \E id \in IdentityPairs, p \in FaultPolls, path \in {"lib", "get"} :
    Arrive(r, ReadStarts, path, IF path = "lib" THEN "cv_fetch" ELSE "get",
           id[1], id[2], p, <<FirstOption(p)>>)

NextRead ==
  \E r \in Reqs : ReadArrive(r) \/ CastSteps(r) \/ GET(r) \/ Release(r)

SpecRead == Init /\ [][NextRead]_vars

(***************************************************************************)
(* Batch ingestion, with a database that stops answering and comes back at *)
(* any time.                                                               *)
(***************************************************************************)
NextBatch ==
  DbFault \/ POST_batch(1) \/ POST_batchChunk(1) \/ Release(1)

SpecBatch == Init /\ [][NextBatch]_vars

(***************************************************************************)
(* The three routes that answer over HTTP while the database comes and     *)
(* goes: the vote route, the optimized route and DELETE, on the single-    *)
(* vote poll p1.                                                           *)
(***************************************************************************)
ReplyIdentities == {<<"u1", None>>, <<None, "f1">>}

ReplyArrive(r) ==
  \E id \in ReplyIdentities, path \in {"route", "opt", "delete"} :
    Arrive(r, ReplyStarts, path,
           CASE path = "route" -> "validate"
             [] path = "opt" -> "rl_get"
             [] OTHER -> "delete",
           id[1], id[2], "p1", <<FirstOption("p1")>>)

NextReply ==
  \/ DbFault
  \/ ReplyArrive(1) \/ RouteSteps(1) \/ CastSteps(1) \/ OptimizedSteps(1)
  \/ DELETE(1) \/ Release(1)

SpecReply == Init /\ [][NextReply]_vars

(***************************************************************************)
(* The optimized route called by clients whose rate-limit identifiers may  *)
(* coincide: user u1, an anonymous client whose x-fingerprint header       *)
(* spells u1's id, a client with neither, and an anonymous client whose    *)
(* header is the word "anonymous".                                         *)
(***************************************************************************)
KeyIdentities ==
  {<<"u1", None>>, <<None, "u1">>, <<None, None>>, <<None, "anonymous">>}

KeyArrive(r) ==
  \E id \in KeyIdentities, p \in FaultPolls :
    Arrive(r, KeyStarts, "opt", "rl_get", id[1], id[2], p, <<FirstOption(p)>>)

NextKey == KeyArrive(1) \/ OptimizedSteps(1) \/ Release(1)

SpecKey == Init /\ [][NextKey]_vars

(***************************************************************************)
(* Properties.                                                             *)
(***************************************************************************)
Done(r) == req[r].pc = "done"

\* No request is in flight.
Quiet == \A r \in Reqs : req[r].pc \in {"idle", "done"}

\* The ballot names exactly one option, an option of the poll.
ValidSingle(q) == Len(q.opts) = 1 /\ q.opts[1] \in PollOptions(q.poll)

\* The rows of the request's identity on its poll.
RowsOf(q) == getUserVote(q.poll, q.user, q.fp, votes)

\* The request was answered 400 for a body naming another poll.
Mismatched(q) == q.path = "opt" /\ q.result = "validation"

RECURSIVE SumPercentages(_, _)
SumPercentages(results, options) ==
  IF options = {} THEN 0
  ELSE LET o == CHOOSE x \in options : TRUE
       IN results[o].percentage + SumPercentages(results, options \ {o})

\* C1: on a poll that disallows multiple votes and does not expire, once the
\* cast-vote calls have all finished, the ledger holds exactly one row for
\* the poll and the identity of a call that sent one option of the poll.
C1_ExactlyOneRow ==
  \A r \in Reqs :
    ( /\ Done(r)
      /\ Quiet
      /\ ~Poll(req[r].poll).allow_multiple_votes
      /\ Poll(req[r].poll).expires_at = <<>>
      /\ ValidSingle(req[r])
      /\ ~Mismatched(req[r])
      /\ (req[r].user # None \/ req[r].fp # None) )
    => Cardinality(RowsOf(req[r])) = 1

\* C2: on the single-vote poll no write of a user is lost: when the calls
\* have all finished, the one row of the user whose insert reached the votes
\* table last carries the option of that insert.
C2_LastWriteSurvives ==
  ( /\ Quiet
    /\ lastWrite # <<>>
    /\ lastWrite[1].kind = "insert"
    /\ lastWrite[1].user # None )
  => \E v \in votes :
       /\ getUserVote(lastWrite[1].poll, lastWrite[1].user, lastWrite[1].fp, votes)
            = {v}
       /\ v.option_id = lastWrite[1].option

\* C3: a cast-vote by an identity that already has a vote on a single-vote
\* poll succeeds and leaves the identity's one row with the new option.
C3_RevoteReplaces ==
  \A r \in Reqs :
    ( /\ Done(r)
      /\ req[r].had
      /\ ~Poll(req[r].poll).allow_multiple_votes
      /\ Poll(req[r].poll).expires_at = <<>>
      /\ ValidSingle(req[r])
      /\ ~Mismatched(req[r]) )
    => /\ req[r].result = "ok"
       /\ \E v \in votes : RowsOf(req[r]) = {v} /\ v.option_id = req[r].opts[1]

\* C4: on a poll that allows multiple votes every cast of a user is a plain
\* insert: the call succeeds, and a user who had a vote on the poll has two
\* rows after it.
C4_MultiVoteInserts ==
  \A r \in Reqs :
    ( /\ Done(r)
      /\ Poll(req[r].poll).allow_multiple_votes
      /\ ValidSingle(req[r])
      /\ ~Mismatched(req[r])
      /\ req[r].user # None /\ req[r].fp = None )
    => /\ req[r].result = "ok"
       /\ Cardinality(RowsOf(req[r])) >= (IF req[r].had THEN 2 ELSE 1)

\* C5: in every ledger state the percentages of get_poll_results of a poll
\* sum to 100.00 within 0.01 per option when the poll has a vote, and are
\* all 0.00 when it has none.
C5_PercentagesSum ==
  \A p \in PollIds :
    LET results == get_poll_results(p, votes)
        sum == SumPercentages(results, PollOptions(p))
    IN IF total_votes(p, votes) > 0
       THEN /\ sum >= 10000 - Cardinality(PollOptions(p))
            /\ sum <= 10000 + Cardinality(PollOptions(p))
       ELSE \A o \in PollOptions(p) : results[o].percentage = 0

\* C6: a user's cast-vote for one option of the poll that arrives when the
\* poll's expires_at is equal to or earlier than the time is rejected as
\* expired and changes no row, on every cast path.
C6_ExpiredRejected ==
  \A r \in Reqs :
    ( /\ Done(r)
      /\ Poll(req[r].poll).expires_at # <<>>
      /\ Poll(req[r].poll).expires_at[1] <= req[r].t0
      /\ req[r].user # None
      /\ ValidSingle(req[r])
      /\ ~Mismatched(req[r]) )
    => req[r].result = "expired" /\ ~req[r].mut

\* C7: a ballot naming an option of another poll, or more than one option on
\* a single-choice poll, is rejected and changes no row, on every cast path.
C7_InvalidBallotRejected ==
  \A r \in Reqs :
    ( /\ Done(r)
      /\ \/ \E i \in 1..Len(req[r].opts) : req[r].opts[i] \notin PollOptions(req[r].poll)
         \/ Len(req[r].opts) > 1 /\ ~Poll(req[r].poll).allow_multiple_votes )
    => req[r].result # "ok" /\ ~req[r].mut

\* C8: a cast-vote that arrives when its identity has RATE_LIMIT_MAX_VOTES
\* accepted votes inside the open window is rejected as rate limited with a
\* retry-after above 0, and writes no row.
C8_EleventhRejected ==
  \A r \in Reqs :
    (Done(r) /\ req[r].full /\ ~Mismatched(req[r]))
    => /\ req[r].result = "rate_limited"
       /\ req[r].retryAfter > 0
       /\ ~req[r].mut

\* C9: no interleaving of an identity's requests records more than
\* RATE_LIMIT_MAX_VOTES of its votes within one window.
C9_AtMostNPerWindow ==
  \A k \in Identifiers : acc[k].k <= RATE_LIMIT_MAX_VOTES

\* C10: the rate-limit counter of an identifier is incremented only by a
\* cast-vote of that identifier whose rows are in the votes table, by one,
\* and a request that incremented it is not answered with a rejection or
\* an error.
C10_CountedOnlyIfWritten ==
  /\ [](\A r \in Reqs :
          req[r].counted => req[r].mut /\ req[r].result \in {None, "ok"})
  /\ [][\A k \in Identifiers :
          (rl'[k] # rl[k] /\ rl'[k].n # 0)
          => \E r \in Reqs :
               /\ Identifier(req[r].user, req[r].fp) = k
               /\ ~req[r].counted /\ req'[r].counted
               /\ rl'[k].n = rl[k].n + 1
               /\ \A i \in 1..Len(req[r].opts) :
                    \E v \in votes : /\ v.poll_id = req[r].poll
                                     /\ v.option_id = req[r].opts[i]
                                     /\ v.user_id = req[r].user]_vars

\* A request is answered as rate limited, uncounted, with its identifier's
\* counter at the limit.
C10_Witness ==
  \E r \in Reqs :
    /\ Done(r)
    /\ req[r].result = "rate_limited"
    /\ ~req[r].counted
    /\ rl[Identifier(req[r].user, req[r].fp)].n = RATE_LIMIT_MAX_VOTES

C12_FailOpen ==
  \A r \in Reqs :
    (Done(r) /\ req[r].path = "opt" /\ req[r].redisFailed /\ ~req[r].dbFailed)
    => /\ req[r].result \in {"ok", "db_error"}
       /\ (ValidSingle(req[r]) /\ ~req[r].had)
            => /\ req[r].result = "ok" /\ req[r].mut
               /\ \E v \in votes :
                    /\ v.poll_id = req[r].poll /\ v.option_id = req[r].opts[1]
                    /\ v.user_id = req[r].user
                    /\ v.voter_fingerprint = req[r].fp

\* A first valid ballot is recorded and answered with success although
\* Redis failed during the request and still does not answer.
C12_Witness ==
  /\ Done(1) /\ req[1].redisFailed /\ ~req[1].dbFailed /\ ~redisUp
  /\ ValidSingle(req[1]) /\ ~req[1].had /\ ~req[1].counted
  /\ req[1].result = "ok" /\ RowsOf(req[1]) # {}

\* C13: a cached poll snapshot is removed only by the expiry of its TTL: no
\* step of a cast-vote removes or rewrites a snapshot that is present and
\* whose TTL has not elapsed.
C13_TtlOnlyEviction ==
  [][\A p \in PollIds :
       (cache[p] > 0 /\ cache[p] > now') => cache'[p] = cache[p]]_vars

\* C14: the insert is retried only after a transient storage failure and is
\* attempted at most maxRetries times: a request never makes an attempt
\* beyond the third, a third failed attempt ends it with a server error, and
\* an attempt that the database refused (a permanent error) is the last one.
C14_RetryOnlyTransient ==
  \A r \in Reqs :
    /\ req[r].attempt <= maxRetries
    /\ Len(req[r].fails) <= maxRetries
    /\ Len(req[r].fails) = maxRetries
         => (Done(r) /\ req[r].result = "db_error")
    /\ \A i \in 1..Len(req[r].fails) :
         req[r].fails[i] = "permanent"
           => (i = Len(req[r].fails) /\ Done(r) /\ req[r].result = "db_error")

\* The request was rejected: by a check of its handler, or by the votes
\* table's validate_vote trigger raising 'Multiple votes not allowed for this
\* poll' on castVote's insert of several options for a single-vote poll.
Rejected(q) ==
  \/ q.result \in {"access_denied", "expired", "validation", "rate_limited"}
  \/ /\ q.result = "db_error" /\ q.path = "lib"
     /\ Len(q.opts) > 1 /\ ~Poll(q.poll).allow_multiple_votes
     /\ (q.user # None \/ q.fp # None)

\* C15: a cast-vote request that ends in a rejection has changed no row of
\* the votes table: every check precedes the first insert, update or delete.
C15_RejectedWritesNothing ==
  \A r \in Reqs : (Done(r) /\ Rejected(req[r])) => ~req[r].mut

\* C16: a ballot is recorded as one batch: a step of a cast-vote call that
\* adds rows to the votes table adds one row for every option of the
\* call's ballot; no step adds rows for only some of them, whether it is the
\* first attempt of the write or a retry.
C16_AllOrNone ==
  [][\A r \in Reqs :
       (req[r].pc \in {"insert", "cv_insert"} /\ req'[r] # req[r])
       => LET added == votes' \ votes
          IN \/ added = {}
             \/ /\ Cardinality(added) = Len(req[r].opts)
                /\ {v.option_id : v \in added} = SeqToSet(req[r].opts)]_vars

\* A ballot of two options is recorded whole by the retry of an attempt
\* that failed.
C16_Witness ==
  /\ Done(1) /\ Len(req[1].opts) = 2 /\ req[1].fails # <<>>
  /\ req[1].result = "ok"
  /\ \A i \in 1..2 :
       \E v \in votes : v.poll_id = req[1].poll /\ v.option_id = req[1].opts[i]

\* The request carries no usable identity: no authenticated user, and no
\* fingerprint or a poll that disallows anonymous votes.
NoIdentity(q) ==
  q.user = None /\ (q.fp = None \/ ~Poll(q.poll).allow_anonymous_votes)

\* C17: identity resolution of the two vote routes rejects a cast-vote
\* exactly when it carries no usable identity: such a request is not answered
\* with success and writes nothing, and no other request is rejected for
\* want of an identity.
C17_IdentityResolution ==
  \A r \in Reqs :
    (Done(r) /\ req[r].path \in {"route", "opt"}) =>
      /\ NoIdentity(req[r]) => (req[r].result # "ok" /\ ~req[r].mut)
      /\ ~NoIdentity(req[r]) => req[r].result # "auth_required"

\* C18: every row of the votes table carries exactly one identity: a
\* user_id and no fingerprint, or a fingerprint and no user_id.
C18_ExactlyOneIdentity ==
  \A v \in votes : (v.user_id = None) # (v.voter_fingerprint = None)

\* C19: the uniqueness constraints over (poll_id, user_id) and over
\* (poll_id, voter_fingerprint) are disjoint: a vote of an authenticated
\* user is never blocked by the vote of an anonymous fingerprint on the same
\* poll.  A valid first ballot of an authenticated user on a poll that does
\* not expire is recorded and answered with success, whatever anonymous
\* votes the poll has.
C19_DisjointUniqueness ==
  \A r \in Reqs :
    ( /\ Done(r) /\ req[r].user # None /\ ~req[r].had
      /\ ValidSingle(req[r]) /\ ~Mismatched(req[r])
      /\ req[r].poll \in FaultPolls )
    => /\ req[r].result = "ok"
       /\ \E v \in votes : v.poll_id = req[r].poll /\ v.user_id = req[r].user

\* C20: a cast-vote on a private poll by a requester who is not its creator,
\* signed in or not, is rejected as access denied and writes nothing, on
\* every cast path.  The answer that the poll does not exist, given to a
\* requester who may not see it, counts as access denied here.
C20_PrivatePollDenied ==
  \A r \in Reqs :
    ( /\ Done(r) /\ ~Poll(req[r].poll).is_public
      /\ req[r].user # Poll(req[r].poll).creator_id )
    => req[r].result \in {"access_denied", "not_found"} /\ ~req[r].mut

\* C21: a removal of all votes of a poll deletes rows only for the poll's
\* creator: requested by anyone else, signed in or not, it is rejected and
\* deletes no row.
C21_DeleteAllCreatorOnly ==
  \A r \in Reqs :
    ( /\ Done(r) /\ req[r].path = "deleteAll"
      /\ req[r].user # Poll(req[r].poll).creator_id )
    => /\ req[r].result \in {"auth_required", "forbidden", "not_found"}
       /\ ~req[r].mut

\* A signed-in user who did not create the poll asks to delete all its
\* votes while it has some, and is refused.
C21_Witness ==
  /\ Done(1) /\ req[1].path = "deleteAll" /\ req[1].user # None
  /\ req[1].user # Poll(req[1].poll).creator_id
  /\ \E v \in votes : v.poll_id = req[1].poll
  /\ req[1].result = "forbidden"

\* The rows of the table that a query for (poll, user, fingerprint) is to
\* return: those of the user when there is one, else those of the
\* fingerprint, else none.
MyVotes(q) ==
  IF q.user # None
  THEN {v.id : v \in {w \in q.ledger : w.poll_id = q.poll /\ w.user_id = q.user}}
  ELSE IF q.fp # None
  THEN {v.id : v \in {w \in q.ledger : w.poll_id = q.poll
                                       /\ w.voter_fingerprint = q.fp}}
  ELSE {}

\* C22: get-my-votes is a read-only, idempotent query: an answered query
\* changed no row, returned the rows of the user when there is one, else of
\* the fingerprint, else none, with hasVoted true exactly when rows were
\* returned; two queries for the same poll and identity that read the same
\* ledger returned the same rows and flag.
C22_GetMyVotesIdempotent ==
  /\ \A r \in Reqs :
       (Done(r) /\ req[r].path = "get" /\ req[r].result = "ok")
       => /\ ~req[r].mut
          /\ req[r].existing = MyVotes(req[r])
          /\ req[r].hasVoted = (req[r].existing # {})
  /\ \A r1, r2 \in Reqs :
       ( /\ Done(r1) /\ req[r1].path = "get" /\ req[r1].result = "ok"
         /\ Done(r2) /\ req[r2].path = "get" /\ req[r2].result = "ok"
         /\ req[r1].poll = req[r2].poll /\ req[r1].user = req[r2].user
         /\ req[r1].fp = req[r2].fp /\ req[r1].ledger = req[r2].ledger )
       => /\ req[r1].existing = req[r2].existing
          /\ req[r1].hasVoted = req[r2].hasVoted

\* Two queries of a user who sends a fingerprint too, with no vote or
\* removal between them, both answered with the user's vote.
C22_Witness ==
  /\ Done(1) /\ req[1].path = "get" /\ Done(2) /\ req[2].path = "get"
  /\ req[1].poll = req[2].poll /\ req[1].user = req[2].user
  /\ req[1].fp = req[2].fp /\ req[1].ledger = req[2].ledger
  /\ req[1].user # None /\ req[1].fp # None
  /\ req[1].hasVoted /\ req[2].hasVoted

Repeated(batch) ==
  {i \in 1..Len(batch) :
     /\ batch[i].json = "object"
     /\ \E j \in 1..Len(batch) :
          /\ j # i /\ batch[j].json = "object"
          /\ batch[j].userId = batch[i].userId
          /\ batch[j].fingerprint = batch[i].fingerprint
          /\ ~(batch[i].userId = None /\ batch[i].fingerprint = None)}

\* C24: a batch for a single-vote poll that holds two entries of the same
\* identity, all of whose inserts the database answered, records every
\* entry: each repeated entry is a row of the ledger, so that the ledger has
\* more than one row of that poll and identity, and no chunk has failed.
C24_BatchBypassesSingleVote ==
  \A r \in Reqs :
    LET q == req[r]
    IN ( /\ Done(r) /\ q.path = "batch" /\ q.result = "ok" /\ ~q.dbFailed
         /\ ~Poll(q.poll).allow_multiple_votes
         /\ Repeated(q.batch) # {}
         /\ \A i \in 1..Len(q.batch) : q.batch[i].optionId # NoOption )
       => /\ q.failed = 0
          /\ q.processed = Len(q.batch)
          /\ \A i \in Repeated(q.batch) :
               Cardinality({v \in votes :
                              /\ v.poll_id = q.poll
                              /\ v.user_id = q.batch[i].userId
                              /\ v.voter_fingerprint = q.batch[i].fingerprint}) > 1

\* C25: a write to the votes table that fails because the database does not
\* answer is answered as a server error, a status of the 5xx class that no
\* validation error has, and the body of the answer carries no text of the
\* storage error; this holds for the cast-vote routes and for DELETE.
C25_WriteFailureGeneric ==
  [][\A r \in Reqs :
       ( /\ req[r].pc \in {"insert", "cv_insert", "replace", "delete"}
         /\ req[r].path \in HttpPaths
         /\ ~dbUp
         /\ req'[r].pc = "done" /\ req'[r].result = "db_error" )
       => /\ Status(req'[r]) >= 500
          /\ ~Body(req'[r]).storage]_vars

\* The rows of the caller of request q: the rows of its poll that carry its
\* user id or, for a caller without one, its fingerprint.
OwnRows(q, table) ==
  {v \in table :
     /\ v.poll_id = q.poll
     /\ IF q.user # None THEN v.user_id = q.user
        ELSE q.fp # None /\ v.voter_fingerprint = q.fp}

\* C26: a step of a castVote call removes rows of the caller's own identity
\* and poll only, and only on a poll that disallows multiple votes; there
\* its delete step leaves no prior row of the caller behind, so that the
\* insert finds none; the rows it adds are the caller's rows of that poll;
\* every other row of the table is the same after the step.
C26_CastVoteOwnRowsOnly ==
  [][\A r \in Reqs :
       ( /\ req[r].path = "lib" /\ req[r].pc \in {"cv_delete", "cv_insert"}
         /\ req'[r] # req[r] )
       => LET q == req[r]
          IN /\ (votes \ votes') \subseteq OwnRows(q, votes)
             /\ Poll(q.poll).allow_multiple_votes => votes \subseteq votes'
             /\ (votes' \ votes) \subseteq OwnRows(q, votes') \cup
                  {v \in votes' : v.poll_id = q.poll /\ v.user_id = None
                                  /\ v.voter_fingerprint = None}
             /\ (q.pc = "cv_delete" /\ dbUp) => OwnRows(q, votes') = {}]_vars

\* The gates of a cast-vote request in the order the request is to pass
\* them.
GateOrder ==
  <<"identity", "rate", "poll", "existing", "written", "invalidated">>

Rank(g) == CHOOSE i \in 1..Len(GateOrder) : GateOrder[i] = g

\* C27: a cast-vote request of the vote route or of the optimized route
\* passes its gates in the order of GateOrder; the step that writes its rows
\* to the votes table comes after its rate check allowed it and its poll
\* validation passed, and it is answered with success only after its write.
C27_GateOrder ==
  [][\A r \in Reqs :
       ( /\ req[r].path \in {"route", "opt"}
         /\ req'[r] # req[r] /\ req'[r].pc # "idle" )
       => LET q == req[r]  q2 == req'[r]
          IN /\ \A i, j \in 1..Len(q2.gates) :
                  i < j => Rank(q2.gates[i]) < Rank(q2.gates[j])
             /\ votes' # votes => {"rate", "poll"} \subseteq SeqToSet(q.gates)
             /\ (q2.pc = "done" /\ q2.result = "ok")
                  => "written" \in SeqToSet(q2.gates)]_vars

\* C28: when an identity that had a vote on a single-vote poll votes again
\* and the call fails at its write step, the votes table still holds a row
\* of that identity for the poll after the failed step.
C28_FailedWriteKeepsVote ==
  [][\A r \in Reqs :
       ( /\ req[r].pc \in {"cv_insert", "insert", "replace"}
         /\ req[r].had /\ ~Poll(req[r].poll).allow_multiple_votes
         /\ req'[r].pc = "done" /\ req'[r].result = "db_error" )
       => getUserVote(req[r].poll, req[r].user, req[r].fp, votes') # {}]_vars

\* Who a request is: the authenticated user, else the anonymous client of
\* its fingerprint, else nobody.
IdentityOf(u, f) ==
  IF u # None THEN [kind |-> "user", id |-> u]
  ELSE IF f # None THEN [kind |-> "fingerprint", id |-> f]
  ELSE [kind |-> "none", id |-> None]

\* C29: the step of a request that counts its vote changes the rate-limit
\* counter of no identity other than the request's own: the counter that
\* checkRateLimit reads for any other user, any other anonymous fingerprint
\* or a client without identity is the same after the step.
C29_CountersIndependent ==
  [][\A r \in Reqs :
       (req[r].pc = "rl_update" /\ req'[r] # req[r])
       => \A other \in KeyIdentities :
            IdentityOf(other[1], other[2]) # IdentityOf(req[r].user, req[r].fp)
            => rl'[Identifier(other[1], other[2])]
                 = rl[Identifier(other[1], other[2])]]_vars

\* C30: in the response to a batch request, processed is the number of rows
\* the request has inserted into the votes table and failed is the number of
\* its entries that were not inserted; this holds for the response of the
\* outer catch too.
C30_BatchCountsMatchLedger ==
  \A r \in Reqs :
    (Done(r) /\ req[r].path = "batch")
    => /\ req[r].processed = req[r].inserted
       /\ req[r].failed = Len(req[r].batch) - req[r].inserted

=============================================================================
